---- MODULE Spec2Model ----
(***************************************************************************)
(* Model of the FastAPI backend in src/main.py: the diagnostics probe      *)
(* GET /test, the streamed chat reply POST /api/chat, and the ebook draft  *)
(* store POST /api/ebook/save and GET /api/ebook/list over a document      *)
(* store reached through the module-level handle `db`.                     *)
(*                                                                         *)
(* Text is modelled as a sequence of one-character strings, so that the    *)
(* per-character streaming, str.strip() and substring containment are      *)
(* computed rather than assumed.                                           *)
(***************************************************************************)
EXTENDS Integers, Sequences, FiniteSets, TLC

None == "None"

(***************************************************************************)
(* Bounds of the model.                                                    *)
(***************************************************************************)
\* longest chat message that is enumerated
MaxMsgLen == 2
\* largest reading of the wall clock (datetime.utcnow(), in store resolution)
MaxClock == 2
\* number of save/list requests that can be in flight at the same time
NumTasks == 2
\* largest number of collections the database holds
MaxCollections == 11

(***************************************************************************)
(* Program constants.                                                      *)
(***************************************************************************)
\* collections[:10]
ShownCollections == 10
\* str(e)[:50]
ErrPrefixLen == 50
\* list_ebooks(limit: int = 20)
DefaultLimit == 20

(***************************************************************************)
(* Sequences.                                                              *)
(***************************************************************************)
\* s[:n] for n >= 0
Take(s, n) == SubSeq(s, 1, IF n < Len(s) THEN n ELSE Len(s))

\* all sequences over S of length at most n
RECURSIVE SeqsUpTo(_, _)
SeqsUpTo(S, n) ==
  IF n = 0 THEN {<<>>}
  ELSE LET shorter == SeqsUpTo(S, n - 1)
       IN  shorter \cup {Append(s, c) : s \in {x \in shorter : Len(x) = n - 1}, c \in S}

\* needle occurs in hay starting at position i
OccursAt(needle, hay, i) ==
  /\ i >= 1
  /\ i + Len(needle) - 1 <= Len(hay)
  /\ \A j \in 1..Len(needle) : hay[i + j - 1] = needle[j]

\* Python's `needle in hay` for strings
Contains(hay, needle) == \E i \in 1..(Len(hay) + 1) : OccursAt(needle, hay, i)

(***************************************************************************)
(* The literals of chat.token_stream.                                      *)
(***************************************************************************)
preface ==
  <<"V", "o", "i", "c", "i", " ", "u", "n", " ", "p", "l", "a", "n", " ", "d", "é", "t", "a",
    "i", "l", "l", "é", ",", " ", "p", "u", "i", "s", " ", "u", "n", "e", " ", "r", "é", "d",
    "a", "c", "t", "i", "o", "n", " ", "p", "r", "o", "g", "r", "e", "s", "s", "i", "v", "e",
    " ", "d", "e", "s", " ", "c", "h", "a", "p", "i", "t", "r", "e", "s", " ", "e", "t", " ",
    "e", "n", "f", "i", "n", " ", "u", "n", "e", " ", "p", "r", "o", "p", "o", "s", "i", "t",
    "i", "o", "n", " ", "d", "e", " ", "c", "o", "u", "v", "e", "r", "t", "u", "r", "e", ".",
    " ", "V", "o", "u", "s", " ", "p", "o", "u", "v", "e", "z", " ", "c", "o", "n", "t", "i",
    "n", "u", "e", "r", " ", "à", " ", "m", "e", " ", "d", "o", "n", "n", "e", "r", " ", "d",
    "e", "s", " ", "i", "n", "s", "t", "r", "u", "c", "t", "i", "o", "n", "s", " ", "p", "e",
    "n", "d", "a", "n", "t", " ", "l", "a", " ", "g", "é", "n", "é", "r", "a", "t", "i", "o",
    "n", ".", "\n", "\n">>

stage1_text ==
  <<"[", "p", "r", "o", "g", "r", "e", "s", "s", ":", "1", "0", "]", " ", "P", "l", "a", "n",
    " ", "d", "e", " ", "l", "'", "e", "b", "o", "o", "k", " ", "g", "é", "n", "é", "r", "é",
    ".", "\n", "\n", "1", ".", " ", "I", "n", "t", "r", "o", "d", "u", "c", "t", "i", "o", "n",
    "\n", "2", ".", " ", "C", "o", "n", "c", "e", "p", "t", "s", " ", "c", "l", "é", "s", "\n",
    "3", ".", " ", "É", "t", "u", "d", "e", "s", " ", "d", "e", " ", "c", "a", "s", "\n", "4",
    ".", " ", "C", "o", "n", "c", "l", "u", "s", "i", "o", "n", "\n">>

stage2_text ==
  <<"[", "p", "r", "o", "g", "r", "e", "s", "s", ":", "5", "5", "]", " ", "R", "é", "d", "a",
    "c", "t", "i", "o", "n", " ", "d", "e", "s", " ", "c", "h", "a", "p", "i", "t", "r", "e",
    "s", " ", "e", "n", " ", "c", "o", "u", "r", "s", ".", ".", ".", "\n", "\n", "C", "h", "a",
    "p", "i", "t", "r", "e", " ", "1", ":", " ", ".", ".", ".", "\n", "C", "h", "a", "p", "i",
    "t", "r", "e", " ", "2", ":", " ", ".", ".", ".", "\n", "C", "h", "a", "p", "i", "t", "r",
    "e", " ", "3", ":", " ", ".", ".", ".", "\n">>

stage3_text ==
  <<"[", "p", "r", "o", "g", "r", "e", "s", "s", ":", "8", "5", "]", " ", "C", "r", "é", "a",
    "t", "i", "o", "n", " ", "d", "e", " ", "l", "a", " ", "c", "o", "u", "v", "e", "r", "t",
    "u", "r", "e", ":", " ", "T", "i", "t", "r", "e", ",", " ", "s", "o", "u", "s", "-", "t",
    "i", "t", "r", "e", ",", " ", "a", "u", "t", "e", "u", "r", ",", " ", "p", "a", "l", "e",
    "t", "t", "e", ".", "\n">>

stage4_text ==
  <<"[", "p", "r", "o", "g", "r", "e", "s", "s", ":", "1", "0", "0", "]", " ", "[", "d", "o",
    "n", "e", "]">>

\* stages = [(10, ...), (55, ...), (85, ...), (100, ...)]
stages ==
  << [p |-> 10, text |-> stage1_text], [p |-> 55, text |-> stage2_text],
     [p |-> 85, text |-> stage3_text], [p |-> 100, text |-> stage4_text] >>

\* "Bien sûr! " + "Vous avez dit: '"
reply_head ==
  <<"B", "i", "e", "n", " ", "s", "û", "r", "!", " ", "V", "o", "u", "s", " ", "a", "v", "e",
    "z", " ", "d", "i", "t", ":", " ", "'">>

\* "'. " + "Voici une réponse utile, ..."
reply_tail ==
  <<"'", ".", " ", "V", "o", "i", "c", "i", " ", "u", "n", "e", " ", "r", "é", "p", "o", "n",
    "s", "e", " ", "u", "t", "i", "l", "e", ",", " ", "a", "v", "e", "c", " ", "d", "e", "s",
    " ", "i", "d", "é", "e", "s", " ", "c", "o", "n", "c", "r", "è", "t", "e", "s", " ", "e",
    "t", " ", "d", "e", "s", " ", "é", "t", "a", "p", "e", "s", " ", "s", "u", "i", "v", "a",
    "n", "t", "e", "s", ".">>

(***************************************************************************)
(* State.                                                                  *)
(***************************************************************************)
VARIABLES
  \* the environment of the process -----------------------------------
  dbImport,     \* outcome of `from database import db`: "ok", "ImportError", "Exception"
  dbHandle,     \* the module-level handle: None or "db"
  importMsg,    \* str(e) of the exception the import raises
  envUrl,       \* whether DATABASE_URL is set
  envName,      \* whether DATABASE_NAME is set
  clock,        \* the reading datetime.utcnow() gives
  \* the document store -----------------------------------------------
  collNames,    \* what db.list_collection_names() lists
  docs,         \* the documents of db["ebook"]
  nextId,       \* the next _id the store assigns
  recent,       \* the _ids in the order of their latest save, latest first
  storeOps,     \* the operations issued against the store so far
  \* requests to /api/ebook/save and /api/ebook/list -------------------
  req,          \* req[t]: the request task t handles
  resp,         \* resp[t]: the response task t produced
  arrivedNew,   \* arrivedNew[t]: a save whose title was not stored when it arrived
  \* GET /test ---------------------------------------------------------
  testResp,     \* the response of the last GET /test
  \* POST /api/chat ----------------------------------------------------
  chat_pc,      \* "idle", "rejected", "streaming", "closed"
  chat_req,     \* the ChatRequest being served
  chat_resp,    \* status and detail of the response
  chat_out,     \* the characters the stream has emitted
  gen           \* token_stream's position: segment and character

envVars == <<dbImport, dbHandle, importMsg, envUrl, envName, clock>>
storeVars == <<collNames, docs, nextId, recent, storeOps>>
taskVars == <<req, resp, arrivedNew>>
chatVars == <<chat_pc, chat_req, chat_resp, chat_out, gen>>
vars == <<envVars, storeVars, taskVars, testResp, chatVars>>

(***************************************************************************)
(* POST /api/chat                                                          *)
(***************************************************************************)
\* the characters str.strip() removes
Whitespace == {" ", "\n", "\t", "\r"}

\* the characters chat messages are drawn from
MsgChars == {" ", "\n", "a"}

RECURSIVE lstrip(_)
lstrip(s) == IF s # <<>> /\ Head(s) \in Whitespace THEN lstrip(Tail(s)) ELSE s

RECURSIVE rstrip(_)
rstrip(s) ==
  IF s # <<>> /\ s[Len(s)] \in Whitespace THEN rstrip(SubSeq(s, 1, Len(s) - 1)) ELSE s

\* a strip that removes blanks only
strip_blanks(s) ==
  LET RECURSIVE l(_), r(_)
      l(x) == IF x # <<>> /\ Head(x) = " " THEN l(Tail(x)) ELSE x
      r(x) == IF x # <<>> /\ x[Len(x)] = " " THEN r(SubSeq(x, 1, Len(x) - 1)) ELSE x
  IN  r(l(s))

\* req.message.strip()
strip(s) == rstrip(lstrip(s))

\* a reply that leaves the user's text out
reply_without_text(user_text) == reply_head \o reply_tail

\* "Bien sûr! " + "Vous avez dit: '" + user_text + "'. " + "Voici une réponse ..."
reply(user_text) == reply_head \o user_text \o reply_tail

\* the ebook script without its last stage
ebook_script_short == <<preface>> \o [i \in 1..(Len(stages) - 1) |-> stages[i].text]

\* the strings token_stream iterates over in ebook mode: preface, then each stage's text
ebook_script == <<preface>> \o [i \in 1..Len(stages) |-> stages[i].text]

\* the strings token_stream iterates over, in order
script(r) == IF r.mode = "ebook" THEN ebook_script ELSE <<reply(strip(r.message))>>

\* the first position at or after (seg, pos) that holds a character: a `for ch in text`
\* over an exhausted text falls through to the next one
RECURSIVE seek(_, _, _)
seek(ss, seg, pos) ==
  IF seg > Len(ss) THEN [seg |-> seg, pos |-> 1]
  ELSE IF pos > Len(ss[seg]) THEN seek(ss, seg + 1, 1)
  ELSE [seg |-> seg, pos |-> pos]

ChatTurns == {[role |-> "user", content |-> <<"a">>]}
Histories == {<<>>} \cup {<<h>> : h \in ChatTurns}
Modes == {None, "ebook", "other"}
Messages == SeqsUpTo(MsgChars, MaxMsgLen)
ChatRequests == [message : Messages, history : Histories, mode : Modes]

NoChatRequest == [message |-> <<>>, history |-> <<>>, mode |-> "-"]
NoChatResponse == [status |-> 0, detail |-> ""]

\* the handler up to its return: the 400 of an empty message, or the StreamingResponse
chat(r) ==
  /\ chat_pc = "idle"
  /\ chat_req' = r
  /\ chat_out' = <<>>
  /\ IF strip(r.message) = <<>>
       THEN /\ chat_pc' = "rejected"
            /\ chat_resp' = [status |-> 400, detail |-> "Message cannot be empty"]
            /\ UNCHANGED gen
       ELSE /\ chat_pc' = "streaming"
            /\ chat_resp' = [status |-> 200, detail |-> ""]
            /\ gen' = seek(script(r), 1, 1)
  /\ UNCHANGED <<envVars, storeVars, taskVars, testResp>>

\* token_stream: `yield ch`, then asyncio.sleep
token_stream_yield ==
  /\ chat_pc = "streaming"
  /\ gen.seg <= Len(script(chat_req))
  /\ chat_out' = Append(chat_out, script(chat_req)[gen.seg][gen.pos])
  /\ gen' = seek(script(chat_req), gen.seg, gen.pos + 1)
  /\ UNCHANGED <<chat_pc, chat_req, chat_resp, envVars, storeVars, taskVars, testResp>>

\* token_stream runs off its last loop: the stream ends
token_stream_return ==
  /\ chat_pc = "streaming"
  /\ gen.seg > Len(script(chat_req))
  /\ chat_pc' = "closed"
  /\ UNCHANGED <<chat_req, chat_resp, chat_out, gen, envVars, storeVars, taskVars, testResp>>

\* the response has gone to the client; the next request is taken
chat_finish ==
  /\ chat_pc \in {"rejected", "closed"}
  /\ chat_pc' = "idle"
  /\ chat_req' = NoChatRequest
  /\ chat_resp' = NoChatResponse
  /\ chat_out' = <<>>
  /\ gen' = [seg |-> 1, pos |-> 1]
  /\ UNCHANGED <<envVars, storeVars, taskVars, testResp>>

(***************************************************************************)
(* The persistence accessor: `from database import db` and the pymongo     *)
(* calls main.py makes on it.                                              *)
(***************************************************************************)
\* str(e) of the exceptions the environment raises
ErrMsgs == {[i \in 1..n |-> "x"] : n \in {0, ErrPrefixLen - 1, ErrPrefixLen, ErrPrefixLen + 7}}

\* `from database import db` raised nothing
ImportOk(imp) == imp = "ok"

\* a check that takes every handle for configured
AnyHandle(h) == TRUE

\* `db is not None`
Configured(h) == h # None

\* str(existing["_id"]), str(res.inserted_id), str(d.pop("_id"))
str_id(oid) == ToString(oid)

NoDoc == [_id |-> 0]

\* a look-up that finds nothing
find_nothing(coll, title) == NoDoc

\* db["ebook"].find_one({"title": title}): the first match in natural order, or None
find_one(coll, title) ==
  LET matches == {d \in coll : d.title = title}
  IN  IF matches = {} THEN NoDoc
      ELSE CHOOSE d \in matches : \A e \in matches : d._id <= e._id

\* a look-up by the payload's id
lookup_by_id(coll, payload) ==
  LET matches == {d \in coll : str_id(d._id) = payload.id}
  IN  IF matches = {} THEN NoDoc ELSE CHOOSE d \in matches : TRUE

\* existing = db["ebook"].find_one({"title": payload.title})
lookup(coll, payload) == find_one(coll, payload.title)

\* doc = payload.model_dump(); doc["updated_at"] = datetime.utcnow()
model_dump(payload, now) ==
  [id |-> payload.id, title |-> payload.title, content |-> payload.content,
   style |-> payload.style, progress |-> payload.progress, updated_at |-> now]

\* the document with its storage identifier
stored(oid, doc) ==
  [_id |-> oid, id |-> doc.id, title |-> doc.title, content |-> doc.content,
   style |-> doc.style, progress |-> doc.progress, updated_at |-> doc.updated_at]

\* an update that leaves the stored fields as they were
update_nothing(coll, oid, doc) == coll

\* db["ebook"].update_one({"_id": oid}, {"$set": doc})
update_one(coll, oid, doc) == {IF d._id = oid THEN stored(oid, doc) ELSE d : d \in coll}

\* db["ebook"].insert_one(doc), the store assigning oid
insert_one(coll, oid, doc) == coll \cup {stored(oid, doc)}

\* the _id oid moved to the front of the save order
saved_last(order, oid) == <<oid>> \o SelectSeq(order, LAMBDA x : x # oid)

\* the orders of a sort("updated_at", 1): ascending
sorted_asc(coll) ==
  {s \in [1..Cardinality(coll) -> coll] :
     /\ \A i, j \in 1..Cardinality(coll) : i # j => s[i] # s[j]
     /\ \A i, j \in 1..Cardinality(coll) : i < j => s[i].updated_at <= s[j].updated_at}

\* the orders in which find({}).sort("updated_at", -1) can deliver the collection:
\* updated_at descending, documents of equal updated_at in any order
sorted_desc(coll) ==
  {s \in [1..Cardinality(coll) -> coll] :
     /\ \A i, j \in 1..Cardinality(coll) : i # j => s[i] # s[j]
     /\ \A i, j \in 1..Cardinality(coll) : i < j => s[i].updated_at >= s[j].updated_at}

\* cursor.limit(n): the first |n| documents, and all of them for n = 0
limit_to(s, n) == IF n = 0 THEN s ELSE Take(s, IF n < 0 THEN -n ELSE n)

\* d["id"] = str(d.pop("_id"))
item(d) ==
  [id |-> str_id(d._id), title |-> d.title, content |-> d.content, style |-> d.style,
   progress |-> d.progress, updated_at |-> d.updated_at]

\* a list that fails like save does when the handle is None
unconfigured_error == [code |-> 500, detail |-> <<"Database not configured">>]

\* return {"items": []}
unconfigured_list == [code |-> 200, items |-> <<>>]

(***************************************************************************)
(* POST /api/ebook/save and GET /api/ebook/list                            *)
(***************************************************************************)
Tasks == 1..NumTasks

Titles == {"t1", "t2", "t3"}
Contents == {"c1", "c2"}
PayloadIds == {None}
Styles == {"plain"}
Progresses == {0}
Payloads ==
  [id : PayloadIds, title : Titles, content : Contents, style : Styles, progress : Progresses]
Limits == {-1, 0, 1, 2, DefaultLimit}

NoRequest == [kind |-> "none"]
NoResponse == [code |-> 0]
SaveRequest(payload) == [kind |-> "save", payload |-> payload]
ListRequest(n) == [kind |-> "list", limit |-> n]

\* POST /api/ebook/save arrives with its payload and gets its task
submit_save(t, payload) ==
  /\ req[t] = NoRequest
  /\ req' = [req EXCEPT ![t] = SaveRequest(payload)]
  /\ arrivedNew' = [arrivedNew EXCEPT ![t] = \A d \in docs : d.title # payload.title]
  /\ UNCHANGED <<resp, envVars, storeVars, testResp, chatVars>>

\* GET /api/ebook/list arrives with its limit and gets its task
submit_list(t, n) ==
  /\ req[t] = NoRequest
  /\ req' = [req EXCEPT ![t] = ListRequest(n)]
  /\ UNCHANGED <<arrivedNew, resp, envVars, storeVars, testResp, chatVars>>

\* save_ebook, from its first line to its return: it awaits nothing
save_ebook(t) ==
  /\ req[t].kind = "save"
  /\ resp[t] = NoResponse
  /\ LET payload == req[t].payload IN
     IF ~ImportOk(dbImport)
       THEN /\ resp' = [resp EXCEPT ![t] =
                          [code |-> 500, detail |-> <<"Database not available: ", importMsg>>]]
            /\ UNCHANGED storeVars
     ELSE IF ~Configured(dbHandle)
       THEN /\ resp' = [resp EXCEPT ![t] =
                          [code |-> 500, detail |-> <<"Database not configured">>]]
            /\ UNCHANGED storeVars
     ELSE LET doc == model_dump(payload, clock)
              existing == lookup(docs, payload)
          IN  IF existing # NoDoc
                THEN /\ docs' = update_one(docs, existing._id, doc)
                     /\ recent' = saved_last(recent, existing._id)
                     /\ storeOps' = storeOps \cup {"find_one", "update_one"}
                     /\ resp' = [resp EXCEPT ![t] =
                                   [code |-> 200, status |-> "updated",
                                    id |-> str_id(existing._id)]]
                     /\ UNCHANGED <<nextId, collNames>>
                ELSE /\ docs' = insert_one(docs, nextId, doc)
                     /\ recent' = saved_last(recent, nextId)
                     /\ nextId' = nextId + 1
                     /\ storeOps' = storeOps \cup {"find_one", "insert_one"}
                     /\ resp' = [resp EXCEPT ![t] =
                                   [code |-> 200, status |-> "created", id |-> str_id(nextId)]]
                     /\ UNCHANGED collNames
  /\ UNCHANGED <<req, arrivedNew, envVars, testResp, chatVars>>

\* list_ebooks, from its first line to its return
list_ebooks(t) ==
  /\ req[t].kind = "list"
  /\ resp[t] = NoResponse
  /\ IF ~ImportOk(dbImport)
       THEN /\ resp' = [resp EXCEPT ![t] =
                          [code |-> 500, detail |-> <<"Database not available: ", importMsg>>]]
            /\ UNCHANGED storeVars
     ELSE IF ~Configured(dbHandle)
       THEN /\ resp' = [resp EXCEPT ![t] = unconfigured_list]
            /\ UNCHANGED storeVars
     ELSE \E cursor \in sorted_desc(docs) :
            LET shown == limit_to(cursor, req[t].limit)
            IN  /\ resp' = [resp EXCEPT ![t] =
                              [code |-> 200, items |-> [i \in 1..Len(shown) |-> item(shown[i])]]]
                /\ storeOps' = storeOps \cup {"find"}
                /\ UNCHANGED <<collNames, docs, nextId, recent>>
  /\ UNCHANGED <<req, arrivedNew, envVars, testResp, chatVars>>

\* the response has gone to the client
deliver(t) ==
  /\ resp[t] # NoResponse
  /\ req' = [req EXCEPT ![t] = NoRequest]
  /\ resp' = [resp EXCEPT ![t] = NoResponse]
  /\ arrivedNew' = [arrivedNew EXCEPT ![t] = FALSE]
  /\ UNCHANGED <<envVars, storeVars, testResp, chatVars>>

\* the wall clock moves on
tick ==
  /\ clock < MaxClock
  /\ clock' = clock + 1
  /\ UNCHANGED <<dbImport, dbHandle, importMsg, envUrl, envName, storeVars, taskVars,
                 testResp, chatVars>>

(***************************************************************************)
(* GET /test                                                               *)
(***************************************************************************)
NoTestResponse == [code |-> 0]

\* all the names, uncut
all_collections(names) == names

\* collections[:10]
shown_collections(names) == Take(names, ShownCollections)

\* str(e)[:50]
shown_error(msg) == Take(msg, ErrPrefixLen)

\* "Set" if os.getenv(...) else "Not Set"
set_or_not(present) == IF present THEN "Set" ELSE "Not Set"

\* the response dict as the handler returns it. The status texts are the source's without
\* their leading pictograph; `database` is the status text and the part of the
\* exception's message that follows it
diagnostics(database, connection_status, collections) ==
  [code |-> 200, backend |-> "Running", database |-> database,
   database_url |-> set_or_not(envUrl), database_name |-> set_or_not(envName),
   connection_status |-> connection_status, collections |-> collections]

\* test_database, from its first line to its return; listed is what
\* db.list_collection_names() does: it returns the names or raises
test_database(listed) ==
  /\ IF dbImport = "ImportError"
       THEN /\ testResp' = diagnostics(
                             <<"Database module not found (run enable-database first)", <<>>>>,
                             "Not Connected", <<>>)
            /\ UNCHANGED storeOps
     ELSE IF dbImport = "Exception"
       THEN /\ testResp' = diagnostics(<<"Error: ", shown_error(importMsg)>>,
                                       "Not Connected", <<>>)
            /\ UNCHANGED storeOps
     ELSE IF ~Configured(dbHandle)
       THEN /\ testResp' = diagnostics(<<"Available but not initialized", <<>>>>,
                                       "Not Connected", <<>>)
            /\ UNCHANGED storeOps
     ELSE /\ storeOps' = storeOps \cup {"list_collection_names"}
          /\ IF listed.raised
               THEN testResp' = diagnostics(<<"Connected but Error: ", shown_error(listed.msg)>>,
                                            "Connected", <<>>)
               ELSE testResp' = diagnostics(<<"Connected & Working", <<>>>>, "Connected",
                                            shown_collections(collNames))
  /\ UNCHANGED <<envVars, collNames, docs, nextId, recent, taskVars, chatVars>>

\* what a call of db.list_collection_names() can do
Listings == {[raised |-> FALSE, msg |-> <<>>]} \cup {[raised |-> TRUE, msg |-> m] : m \in ErrMsgs}

(***************************************************************************)
(* Initial states and specifications.                                      *)
(***************************************************************************)
\* the configurations the process can start in
InitEnv ==
  /\ dbImport \in {"ok", "ImportError", "Exception"}
  /\ dbHandle \in (IF dbImport = "ok" THEN {None, "db"} ELSE {None})
  /\ importMsg \in (IF dbImport = "ok" THEN {<<>>} ELSE ErrMsgs)
  /\ clock = 0

InitIdle ==
  /\ docs = {}
  /\ nextId = 1
  /\ recent = <<>>
  /\ storeOps = {}
  /\ req = [t \in Tasks |-> NoRequest]
  /\ resp = [t \in Tasks |-> NoResponse]
  /\ arrivedNew = [t \in Tasks |-> FALSE]
  /\ testResp = NoTestResponse
  /\ chat_pc = "idle"
  /\ chat_req = NoChatRequest
  /\ chat_resp = NoChatResponse
  /\ chat_out = <<>>
  /\ gen = [seg |-> 1, pos |-> 1]

Init ==
  /\ InitEnv
  /\ envUrl \in BOOLEAN
  /\ envName \in BOOLEAN
  /\ collNames \in (IF dbHandle = "db"
                      THEN {[i \in 1..n |-> ToString(i)] : n \in 0..MaxCollections}
                      ELSE {<<>>})
  /\ InitIdle

\* the store's database holds no collection yet; the connection values are set
InitStore ==
  /\ InitEnv
  /\ envUrl = TRUE
  /\ envName = TRUE
  /\ collNames = <<>>
  /\ InitIdle

NextChat ==
  \/ \E r \in ChatRequests : chat(r)
  \/ token_stream_yield
  \/ token_stream_return
  \/ chat_finish

\* the payloads of the concurrent saves: two titles, each with either content
ConcurrentPayloads == {p \in Payloads : p.title \in {"t1", "t2"}}

NextSave ==
  \/ \E t \in Tasks, p \in ConcurrentPayloads : submit_save(t, p)
  \/ \E t \in Tasks : save_ebook(t)
  \/ \E t \in Tasks : deliver(t)

NextList ==
  \/ \E p \in Payloads : submit_save(1, p)
  \/ \E n \in Limits : submit_list(1, n)
  \/ save_ebook(1)
  \/ list_ebooks(1)
  \/ deliver(1)
  \/ tick

NextDiag == \E listed \in Listings : test_database(listed)

Next == NextChat \/ NextSave \/ NextList \/ NextDiag

Spec == Init /\ [][Next]_vars

\* POST /api/chat alone
SpecChat == InitStore /\ [][NextChat]_vars

\* concurrent saves
SpecSave == InitStore /\ [][NextSave]_vars

\* saves and lists of one client, the clock running
SpecList == InitStore /\ [][NextList]_vars

\* GET /test in every configuration
SpecDiag == Init /\ [][NextDiag]_vars

(***************************************************************************)
(* Properties of POST /api/ebook/save.                                     *)
(***************************************************************************)
\* task t holds a save request and its successful response
SaveDone(t) == req[t].kind = "save" /\ resp[t] # NoResponse /\ resp[t].code = 200

\* the stored documents of a title
WithTitle(coll, title) == {d \in coll : d.title = title}

\* C1: saves being handled one after another from an empty collection, the collection
\* holds at most one document per title.
C1_OneDocumentPerTitle == \A title \in Titles : Cardinality(WithTitle(docs, title)) <= 1

\* C1 witness: two titles are stored and one of them has been saved again.
C1_Witness ==
  /\ Cardinality(docs) >= 2
  /\ \E t \in Tasks : SaveDone(t) /\ resp[t].status = "updated"

\* C2: a save of a title that is not stored returns "created"; a later save of that
\* title returns "updated" with the identifier the first save returned, and leaves
\* exactly one document of the title, holding the content of the later save.
C2_CreatedThenUpdated ==
  [][\A t \in Tasks :
       (req[t].kind = "save" /\ resp[t] = NoResponse /\ resp'[t] # NoResponse
          /\ resp'[t].code = 200)
       => LET title == req[t].payload.title
              after == WithTitle(docs', title)
          IN  /\ WithTitle(docs, title) = {} => resp'[t].status = "created"
              /\ \A a \in Tasks \ {t} :
                   (SaveDone(a) /\ resp[a].status = "created"
                      /\ req[a].payload.title = title)
                   => /\ resp'[t].status = "updated"
                      /\ resp'[t].id = resp[a].id
                      /\ Cardinality(after) = 1
                      /\ \A d \in after : /\ d.content = req[t].payload.content
                                          /\ ToString(d._id) = resp'[t].id]_vars

\* C2 witness: the first save's "created" and the second save's "updated" of the same
\* title with another content, the one document holding the second content.
C2_Witness ==
  \E a, b \in Tasks :
    /\ a # b /\ SaveDone(a) /\ SaveDone(b)
    /\ req[a].payload.title = req[b].payload.title
    /\ req[a].payload.content # req[b].payload.content
    /\ resp[a].status = "created" /\ resp[b].status = "updated"
    /\ resp[a].id = resp[b].id
    /\ \A d \in WithTitle(docs, req[b].payload.title) : d.content = req[b].payload.content
    /\ Cardinality(WithTitle(docs, req[b].payload.title)) = 1

\* two saves of the same title that were both in flight before the title was stored
ConcurrentFirstSaves(a, b) ==
  /\ a # b /\ SaveDone(a) /\ SaveDone(b)
  /\ arrivedNew[a] /\ arrivedNew[b]
  /\ req[a].payload.title = req[b].payload.title

\* C3 as claimed: two concurrent first-time saves of the same new title both find
\* nothing and both insert, leaving two documents of the title.
C3_BothInsert ==
  \A a, b \in Tasks :
    ConcurrentFirstSaves(a, b)
    => /\ resp[a].status = "created" /\ resp[b].status = "created"
       /\ Cardinality(WithTitle(docs, req[a].payload.title)) >= 2

\* C3 amended: of two concurrent first-time saves of the same new title at most one
\* inserts; both return the same identifier and one document of the title is stored:
\* save_ebook awaits nothing between its look-up and its write.
C3_NoRaceOnOneLoop ==
  \A a, b \in Tasks :
    ConcurrentFirstSaves(a, b)
    => /\ ~(resp[a].status = "created" /\ resp[b].status = "created")
       /\ resp[a].id = resp[b].id
       /\ Cardinality(WithTitle(docs, req[a].payload.title)) = 1

\* C3 witness: two concurrent first-time saves of one title have both returned.
C3_Witness ==
  \E a, b \in Tasks :
    ConcurrentFirstSaves(a, b) /\ resp[a].status = "created" /\ resp[b].status = "updated"

\* the persistence accessor is unavailable or unconfigured
NoStore == dbImport # "ok" \/ dbHandle = None

\* C9: without the persistence accessor every save fails with a 500 and nothing is
\* looked up, inserted or updated.
C9_SaveFailsWithoutStore ==
  NoStore
  => /\ docs = {} /\ nextId = 1 /\ storeOps = {}
     /\ \A t \in Tasks :
          (req[t].kind = "save" /\ resp[t] # NoResponse)
          => /\ resp[t].code = 500
             /\ resp[t].detail[1] = (IF dbImport # "ok" THEN "Database not available: "
                                     ELSE "Database not configured")

\* C9 witness: a save has been answered while the handle is None.
C9_Witness ==
  /\ dbImport = "ok" /\ dbHandle = None
  /\ \E t \in Tasks : req[t].kind = "save" /\ resp[t] # NoResponse

(***************************************************************************)
(* Properties of GET /api/ebook/list.                                      *)
(***************************************************************************)
\* task t's list request has just been answered
ListAnswered(t) == req[t].kind = "list" /\ resp[t] = NoResponse /\ resp'[t] # NoResponse

\* C7 as claimed: with no store, be the handle None or the module not importable,
\* the list is empty and the call succeeds.
C7_ListNeverFails ==
  \A t \in Tasks :
    (NoStore /\ req[t].kind = "list" /\ resp[t] # NoResponse)
    => resp[t] = [code |-> 200, items |-> <<>>]

\* C7 amended: with the module importable and the handle None the list is empty and
\* the call succeeds; with the module not importable the call fails with a 500.
C7_ListWithoutStore ==
  \A t \in Tasks :
    (NoStore /\ req[t].kind = "list" /\ resp[t] # NoResponse)
    => IF dbImport = "ok"
         THEN resp[t] = [code |-> 200, items |-> <<>>]
         ELSE resp[t].code = 500 /\ resp[t].detail[1] = "Database not available: "

\* C7 witness: a list has been answered while the handle is None.
C7_Witness ==
  /\ dbImport = "ok" /\ dbHandle = None
  /\ \E t \in Tasks : req[t].kind = "list" /\ resp[t] # NoResponse

\* the document of a storage identifier
DocOf(coll, oid) == CHOOSE d \in coll : d._id = oid

\* the first k documents in the order of their latest save, as list items
LatestSaved(coll, order, k) == [i \in 1..k |-> item(DocOf(coll, order[i]))]

\* every later save carries a later updated_at
StampsFollowSaves(coll, order) ==
  \A i, j \in 1..Len(order) :
    i < j => DocOf(coll, order[i]).updated_at > DocOf(coll, order[j]).updated_at

\* C8 as claimed: with N titles stored a list with limit k, 0 <= k < N, returns exactly the k
\* most recently saved titles, most recently saved first.
C8_LatestKSaved ==
  [][\A t \in Tasks :
       (ListAnswered(t) /\ ~NoStore /\ 0 <= req[t].limit
          /\ req[t].limit < Cardinality(docs))
       => /\ resp'[t].code = 200
          /\ Len(resp'[t].items) = req[t].limit
          /\ resp'[t].items = LatestSaved(docs, recent, req[t].limit)]_vars

\* C8 amended: with N titles stored a list with limit k, 1 <= k < N, returns exactly k
\* items, each a stored document with its storage identifier as "id", in descending
\* order of updated_at, no omitted document having a later updated_at than a returned
\* one; they are the k most recently saved titles, most recently saved first, when
\* every later save carries a later updated_at. A limit of 0 returns all N.
C8_TopKByUpdatedAt ==
  [][\A t \in Tasks :
       /\ (ListAnswered(t) /\ ~NoStore /\ req[t].limit = 0)
          => resp'[t].code = 200 /\ Len(resp'[t].items) = Cardinality(docs)
       /\ (ListAnswered(t) /\ ~NoStore /\ 1 <= req[t].limit
            /\ req[t].limit < Cardinality(docs))
          => LET items == resp'[t].items
                 k == req[t].limit
                 returned == {d \in docs : \E i \in 1..Len(items) : items[i].id = ToString(d._id)}
             IN  /\ resp'[t].code = 200
                 /\ Len(items) = k
                 /\ Cardinality(returned) = k
                 /\ \A i \in 1..k : \E d \in docs :
                      /\ items[i].id = ToString(d._id)
                      /\ items[i].title = d.title /\ items[i].content = d.content
                      /\ items[i].updated_at = d.updated_at
                 /\ \A i, j \in 1..k : i < j => items[i].updated_at >= items[j].updated_at
                 /\ \A d \in docs \ returned : \A i \in 1..k : d.updated_at <= items[i].updated_at
                 /\ StampsFollowSaves(docs, recent) => items = LatestSaved(docs, recent, k)]_vars

\* C8 witness: three titles stored at three clock readings, and a list with limit 2
\* answered with the two latest.
C8_Witness ==
  \E t \in Tasks :
    /\ req[t].kind = "list" /\ req[t].limit = 2 /\ resp[t] # NoResponse
    /\ Cardinality(docs) = 3
    /\ StampsFollowSaves(docs, recent)
    /\ resp[t].items = LatestSaved(docs, recent, 2)

(***************************************************************************)
(* Properties of GET /test.                                                *)
(***************************************************************************)
\* the status text of each tier of the "database" field
TierText ==
  [not_available |-> "Database module not found (run enable-database first)",
   uninitialized |-> "Available but not initialized",
   connected |-> "Connected & Working",
   connected_with_error |-> "Connected but Error: ",
   error |-> "Error: "]

\* the tier a configuration calls for; a handle that is present is connected, with an
\* error or without
TiersFor(imp, handle) ==
  IF imp = "ImportError" THEN {"not_available"}
  ELSE IF imp = "Exception" THEN {"error"}
  ELSE IF handle = None THEN {"uninitialized"}
  ELSE {"connected", "connected_with_error"}

\* C10: GET /test always returns, its "database" field is the text of the tier its
\* configuration calls for, it shows at most 10 collection names, and it writes
\* nothing to the store.
C10_DiagnosticsNeverFail ==
  testResp # NoTestResponse
  => /\ testResp.code = 200
     /\ testResp.backend = "Running"
     /\ \E tier \in TiersFor(dbImport, dbHandle) : testResp.database[1] = TierText[tier]
     /\ Len(testResp.database[2]) <= ErrPrefixLen
     /\ Len(testResp.collections) <= ShownCollections
     /\ \A i \in 1..Len(testResp.collections) : testResp.collections[i] = collNames[i]
     /\ storeOps \subseteq {"list_collection_names"}
     /\ docs = {} /\ nextId = 1

\* C10 witness: the database holds more than 10 collections and 10 are shown.
C10_Witness ==
  /\ testResp # NoTestResponse
  /\ Len(collNames) > ShownCollections
  /\ Len(testResp.collections) = ShownCollections
  /\ testResp.database[1] = TierText.connected

(***************************************************************************)
(* Properties of POST /api/chat.                                           *)
(***************************************************************************)
marker10 ==
  <<"[", "p", "r", "o", "g", "r", "e", "s", "s", ":", "1", "0", "]">>

marker55 ==
  <<"[", "p", "r", "o", "g", "r", "e", "s", "s", ":", "5", "5", "]">>

marker85 ==
  <<"[", "p", "r", "o", "g", "r", "e", "s", "s", ":", "8", "5", "]">>

marker100 ==
  <<"[", "p", "r", "o", "g", "r", "e", "s", "s", ":", "1", "0", "0", "]">>

done_marker ==
  <<"[", "d", "o", "n", "e", "]">>

\* the text of the ebook stream, written out: the preface, then the four blocks
EbookText == preface \o stage1_text \o stage2_text \o stage3_text \o stage4_text

\* s is an initial part of text
IsPrefix(s, text) == Len(s) <= Len(text) /\ s = SubSeq(text, 1, Len(s))

\* the message has a character that is not whitespace
NonEmptyTrimmed(m) == \E i \in 1..Len(m) : m[i] \notin Whitespace

\* the message without its leading and trailing whitespace
Trimmed(m) ==
  LET inner == {i \in 1..Len(m) : m[i] \notin Whitespace}
      first == CHOOSE i \in inner : \A j \in inner : i <= j
      last == CHOOSE i \in inner : \A j \in inner : i >= j
  IN  IF inner = {} THEN <<>> ELSE SubSeq(m, first, last)

\* the positions at or after `from` where needle occurs in text
Occurrences(needle, text, from) == {i \in from..Len(text) : OccursAt(needle, text, i)}

\* the four progress markers occur in the text in their order, none overlapping the next
MarkersInOrder(text) ==
  \E i1 \in Occurrences(marker10, text, 1) :
    \E i2 \in Occurrences(marker55, text, i1 + Len(marker10)) :
      \E i3 \in Occurrences(marker85, text, i2 + Len(marker55)) :
        Occurrences(marker100, text, i3 + Len(marker85)) # {}

\* the text ends with s
EndsWith(text, s) == Len(s) <= Len(text) /\ OccursAt(s, text, Len(text) - Len(s) + 1)

\* a request has been taken and not yet finished
ChatTaken == chat_pc \in {"rejected", "streaming", "closed"}

\* C4 as claimed: for every message m that is non-empty (after trimming, see C6) the
\* stream of a request without mode contains m itself.
C4_EchoesMessage ==
  (ChatTaken /\ chat_pc # "streaming" /\ chat_req.mode = None
     /\ NonEmptyTrimmed(chat_req.message))
  => /\ chat_pc = "closed"
     /\ chat_resp.status = 200
     /\ Contains(chat_out, chat_req.message)

\* C4 amended: for every message that is non-empty after trimming the stream of a
\* request without mode is finite and is the templated sentence around the trimmed
\* message, so it contains the trimmed message; it ends after its last character.
C4_EchoesTrimmedMessage ==
  (ChatTaken /\ chat_req.mode = None /\ NonEmptyTrimmed(chat_req.message))
  => LET sentence == reply_head \o Trimmed(chat_req.message) \o reply_tail
     IN  /\ chat_pc # "rejected"
         /\ chat_resp.status = 200
         /\ IsPrefix(chat_out, sentence)
         /\ chat_pc = "streaming" => (ENABLED token_stream_yield <=> chat_out # sentence)
         /\ chat_pc = "closed" => /\ chat_out = sentence
                                  /\ Contains(chat_out, Trimmed(chat_req.message))
                                  /\ ~ENABLED token_stream_yield

\* C4 witness: a stream without mode has ended for a message with whitespace around it.
C4_Witness ==
  /\ chat_pc = "closed" /\ chat_req.mode = None
  /\ chat_req.message # Trimmed(chat_req.message)
  /\ Contains(chat_out, Trimmed(chat_req.message))

\* C5: for every message that is non-empty (after trimming, see C6) and every history
\* the stream of an ebook request is finite and is the fixed text: the preface and the
\* four blocks, the markers 10, 55, 85, 100 in order, "[done]" last.
C5_EbookStreamIsFixed ==
  (ChatTaken /\ chat_req.mode = "ebook" /\ NonEmptyTrimmed(chat_req.message))
  => /\ chat_pc # "rejected"
     /\ chat_resp.status = 200
     /\ IsPrefix(chat_out, EbookText)
     /\ chat_pc = "streaming" => (ENABLED token_stream_yield <=> chat_out # EbookText)
     /\ chat_pc = "closed" => /\ chat_out = EbookText
                              /\ MarkersInOrder(chat_out)
                              /\ EndsWith(chat_out, done_marker)
                              /\ ~ENABLED token_stream_yield

\* C5 witness: an ebook stream has ended for a request with a history.
C5_Witness ==
  /\ chat_pc = "closed" /\ chat_req.mode = "ebook" /\ chat_req.history # <<>>
  /\ chat_out = EbookText

\* C6: a message of whitespace only, or empty, gets the 400 with its detail, whatever
\* the history and the mode, and no character is streamed.
C6_EmptyMessageRejected ==
  (ChatTaken /\ ~NonEmptyTrimmed(chat_req.message))
  => /\ chat_pc = "rejected"
     /\ chat_resp = [status |-> 400, detail |-> "Message cannot be empty"]
     /\ chat_out = <<>>
     /\ ~ENABLED token_stream_yield

\* C6 witness: an ebook request with a history and a message of whitespace is rejected.
C6_Witness ==
  /\ chat_pc = "rejected" /\ chat_req.mode = "ebook" /\ chat_req.history # <<>>
  /\ chat_req.message # <<>>

====
